---- MODULE Spec2Model ----
(***************************************************************************)
(* A model of sqlmesh/utils/errors.py: the exception taxonomy, the         *)
(* constructors that fix part of their payload, AuditError's string form   *)
(* and SQL rendering, and the two raising helpers raise_config_error and   *)
(* raise_for_status.                                                       *)
(*                                                                         *)
(* The module has no state of its own between calls; the model records the *)
(* last call made with its arguments (call) and what it did (outcome: the  *)
(* value returned or the exception raised).                                *)
(***************************************************************************)
EXTENDS Integers, Sequences, FiniteSets, TLC

VARIABLES call, outcome

vars == <<call, outcome>>

(***************************************************************************)
(* Bounds of the model.                                                    *)
(***************************************************************************)
MaxStatus == 601
MaxCount == 3

(***************************************************************************)
(* Python values.  Optional[str] and str | Path values are tagged records; *)
(* Truthy is Python's truth test on them: None and "" are falsy, a Path    *)
(* object (no __bool__, no __len__) is always truthy, and so is a Model.   *)
(***************************************************************************)
NoneV == [tag |-> "None", val |-> ""]

StrV(s) == [tag |-> "str", val |-> s]

PathV(s) == [tag |-> "Path", val |-> s]

ModelV(name) == [tag |-> "Model", val |-> name]

Truthy(v) ==
    CASE v.tag = "None" -> FALSE
      [] v.tag = "str" -> v.val # ""
      [] OTHER -> TRUE

\* str(Path(s)) for the path literals of the model: pathlib drops a trailing
\* separator and renders the empty path as "."
PathStr(s) ==
    CASE s = "" -> "."
      [] s = "models/" -> "models"
      [] OTHER -> s

\* f"{v}" for a str or a Path
Format(v) == IF v.tag = "Path" THEN PathStr(v.val) ELSE v.val

(***************************************************************************)
(* The class hierarchy: each class and its single base.                    *)
(***************************************************************************)
\* variant: MissingContextException derives from the domain root
MissingContextException_base_Domain == "SQLMeshError"

\* the base of class MissingContextException
MissingContextException_base == "Exception"

Bases ==
    [ SQLMeshError |-> "Exception",
      ConfigError |-> "SQLMeshError",
      MissingDependencyError |-> "SQLMeshError",
      MacroEvalError |-> "SQLMeshError",
      PlanError |-> "SQLMeshError",
      NoChangesPlanError |-> "PlanError",
      UncategorizedPlanError |-> "PlanError",
      ConflictingPlanError |-> "PlanError",
      MissingContextException |-> MissingContextException_base,
      SnapshotVersionError |-> "SQLMeshError",
      MagicError |-> "SQLMeshError",
      AuditConfigError |-> "ConfigError",
      AuditError |-> "SQLMeshError",
      TestError |-> "SQLMeshError",
      NotificationTargetError |-> "SQLMeshError",
      ApiError |-> "SQLMeshError",
      ApiClientError |-> "ApiError",
      ApiServerError |-> "ApiError",
      NotFoundError |-> "ApiClientError",
      CICDBotError |-> "SQLMeshError",
      ParsetimeAdapterCallError |-> "SQLMeshError",
      EngineAdapterError |-> "SQLMeshError",
      UnsupportedCatalogOperationError |-> "EngineAdapterError",
      CircuitBreakerError |-> "SQLMeshError",
      PythonModelEvalError |-> "SQLMeshError",
      TypeError |-> "Exception" ]

\* the classes the module defines
Classes == DOMAIN Bases \ {"TypeError"}

\* issubclass(cls, base), by walking the bases up to Exception
RECURSIVE IsSubclass(_, _)
IsSubclass(cls, base) ==
    IF cls = base THEN TRUE
    ELSE IF cls \in DOMAIN Bases THEN IsSubclass(Bases[cls], base)
    ELSE FALSE

(***************************************************************************)
(* Exception instances and the outcome of a call.                          *)
(***************************************************************************)
\* an exception instance: its class, BaseException.args, and the code
\* attribute (a sequence of length 0 when the attribute is not set)
Exc(type, args, code) == [type |-> type, args |-> args, code |-> code]

NoExc == Exc("", <<>>, <<>>)

Returned(exc, text) == [how |-> "return", exc |-> exc, text |-> text]

ReturnedNone == Returned(NoExc, "")

Raised(exc) == [how |-> "raise", exc |-> exc, text |-> ""]

\* a call whose arguments do not bind to the constructor's parameters
BadArity == Raised(Exc("TypeError", <<>>, <<>>))

\* str(exc) of an exception holding at most one str argument
ExcStr(exc) == IF Len(exc.args) = 0 THEN "" ELSE exc.args[1]

(***************************************************************************)
(* Constructors.                                                           *)
(***************************************************************************)
\* ApiError.__init__(self, message, code), inherited by ApiClientError and
\* ApiServerError
ApiError_init(type, message, code) == Exc(type, <<message>>, <<code>>)

NotFoundCode == 404

\* NotFoundError.__init__(self, message)
NotFoundError_init(message) == ApiError_init("NotFoundError", message, NotFoundCode)

\* variant: the constructor does not pass the message on to Exception
CircuitBreakerError_init_NoMessage == Exc("CircuitBreakerError", <<>>, <<>>)

\* CircuitBreakerError.__init__(self)
CircuitBreakerError_init == Exc("CircuitBreakerError", <<"Circuit breaker triggered.">>, <<>>)

\* cls(*args) for every class but AuditError; args are positional values,
\* a str (tagged) or an int
Construct(cls, args) ==
    CASE cls \in {"ApiError", "ApiClientError", "ApiServerError"} ->
           IF Len(args) = 2
           THEN Returned(ApiError_init(cls, args[1], args[2]), "")
           ELSE BadArity
      [] cls = "NotFoundError" ->
           IF Len(args) = 1 THEN Returned(NotFoundError_init(args[1]), "")
           ELSE BadArity
      [] cls = "CircuitBreakerError" ->
           IF Len(args) = 0 THEN Returned(CircuitBreakerError_init, "")
           ELSE BadArity
      [] OTHER -> Returned(Exc(cls, args, <<>>), "")

(***************************************************************************)
(* raise_for_status                                                        *)
(***************************************************************************)
\* variant: the client range starts above 400
raise_for_status_ClientAbove400(status_code, text) ==
    IF status_code = 404
    THEN Raised(NotFoundError_init(text))
    ELSE IF 400 < status_code /\ status_code < 500
    THEN Raised(ApiError_init("ApiClientError", text, status_code))
    ELSE IF 500 <= status_code /\ status_code < 600
    THEN Raised(ApiError_init("ApiServerError", text, status_code))
    ELSE ReturnedNone

\* variant: the client range is tested before 404
raise_for_status_RangeFirst(status_code, text) ==
    IF 400 <= status_code /\ status_code < 500
    THEN Raised(ApiError_init("ApiClientError", text, status_code))
    ELSE IF status_code = 404
    THEN Raised(NotFoundError_init(text))
    ELSE IF 500 <= status_code /\ status_code < 600
    THEN Raised(ApiError_init("ApiServerError", text, status_code))
    ELSE ReturnedNone

\* variant: the server error carries the message but a fixed code 500
raise_for_status_ServerCode500(status_code, text) ==
    IF status_code = 404
    THEN Raised(NotFoundError_init(text))
    ELSE IF 400 <= status_code /\ status_code < 500
    THEN Raised(ApiError_init("ApiClientError", text, status_code))
    ELSE IF 500 <= status_code /\ status_code < 600
    THEN Raised(ApiError_init("ApiServerError", text, 500))
    ELSE ReturnedNone

\* variant: the server range includes 600
raise_for_status_Upto600(status_code, text) ==
    IF status_code = 404
    THEN Raised(NotFoundError_init(text))
    ELSE IF 400 <= status_code /\ status_code < 500
    THEN Raised(ApiError_init("ApiClientError", text, status_code))
    ELSE IF 500 <= status_code /\ status_code <= 600
    THEN Raised(ApiError_init("ApiServerError", text, status_code))
    ELSE ReturnedNone

raise_for_status(status_code, text) ==
    IF status_code = 404
    THEN Raised(NotFoundError_init(text))
    ELSE IF 400 <= status_code /\ status_code < 500
    THEN Raised(ApiError_init("ApiClientError", text, status_code))
    ELSE IF 500 <= status_code /\ status_code < 600
    THEN Raised(ApiError_init("ApiServerError", text, status_code))
    ELSE ReturnedNone

(***************************************************************************)
(* raise_config_error                                                      *)
(***************************************************************************)
\* an argument the caller leaves out
Omitted == [tag |-> "omitted", val |-> ""]

\* the default of the error_type parameter
DefaultErrorType == "ConfigError"

\* the default of the location parameter
DefaultLocation == NoneV

\* variant: the suffix is added whenever location is not None
raise_config_error_IsNotNone(msg, location, error_type) ==
    IF location.tag # "None"
    THEN Raised(Exc(error_type, <<msg \o " at '" \o Format(location) \o "'">>, <<>>))
    ELSE Raised(Exc(error_type, <<msg>>, <<>>))

\* variant: error_type is used only on the branch with a location
raise_config_error_DefaultKind(msg, location, error_type) ==
    IF Truthy(location)
    THEN Raised(Exc(error_type, <<msg \o " at '" \o Format(location) \o "'">>, <<>>))
    ELSE Raised(Exc("ConfigError", <<msg>>, <<>>))

raise_config_error(msg, location, error_type) ==
    IF Truthy(location)
    THEN Raised(Exc(error_type, <<msg \o " at '" \o Format(location) \o "'">>, <<>>))
    ELSE Raised(Exc(error_type, <<msg>>, <<>>))

(***************************************************************************)
(* AuditError                                                              *)
(***************************************************************************)
\* exp.Query.sql(dialect=..., pretty=...) of sqlglot for the two queries of
\* the model, q1 = SELECT "a" FROM "t" AS "x" and
\* q2 = SELECT COUNT(*) FROM "orders" AS "o" WHERE "id" IS NULL.  A falsy
\* dialect (None or "") selects sqlglot's base dialect; tsql quotes
\* identifiers with brackets and oracle writes a table alias without AS.
QuerySql(query, dialect, pretty) ==
    LET d == IF Truthy(dialect) THEN dialect.val ELSE ""
        q(id) == IF d = "tsql" THEN "[" \o id \o "]" ELSE "\"" \o id \o "\""
        as == IF d = "oracle" THEN " " ELSE " AS "
        sep == IF pretty THEN "\n" ELSE " "
        ind == IF pretty THEN "  " ELSE ""
    IN  IF query = "q1"
        THEN "SELECT" \o sep \o ind \o q("a") \o sep \o "FROM " \o q("t")
             \o as \o q("x")
        ELSE "SELECT" \o sep \o ind \o "COUNT(*)" \o sep \o "FROM " \o q("orders")
             \o as \o q("o") \o sep \o "WHERE" \o sep \o ind \o q("id")
             \o " IS NULL"

\* AuditError.__init__
AuditError_init(audit_name, count, query, model, adapter_dialect) ==
    [type |-> "AuditError", audit_name |-> audit_name, model |-> model,
     count |-> count, query |-> query, adapter_dialect |-> adapter_dialect]

\* AuditError.model_name
AuditError_model_name(self) ==
    IF Truthy(self.model) THEN StrV(self.model.val) ELSE NoneV

\* variant: the stored adapter dialect is preferred to the argument
AuditError_sql_AdapterFirst(self, dialect, pretty) ==
    QuerySql(self.query,
             IF Truthy(self.adapter_dialect) THEN self.adapter_dialect ELSE dialect,
             pretty)

\* AuditError.sql(dialect, **opts), with pretty standing for the opts
AuditError_sql(self, dialect, pretty) ==
    QuerySql(self.query,
             IF Truthy(dialect) THEN dialect ELSE self.adapter_dialect,
             pretty)

\* variant: the clause is decided by the model, not by its name
AuditError_str_ByModel(self) ==
    LET model_str == IF Truthy(self.model)
                     THEN " for model '" \o AuditError_model_name(self).val \o "'"
                     ELSE ""
    IN  "Audit '" \o self.audit_name \o "'" \o model_str \o " failed.\nGot "
        \o ToString(self.count) \o " results, expected 0.\n"
        \o AuditError_sql(self, NoneV, FALSE)

\* AuditError.__str__
AuditError_str(self) ==
    LET model_str == IF Truthy(AuditError_model_name(self))
                     THEN " for model '" \o AuditError_model_name(self).val \o "'"
                     ELSE ""
    IN  "Audit '" \o self.audit_name \o "'" \o model_str \o " failed.\nGot "
        \o ToString(self.count) \o " results, expected 0.\n"
        \o AuditError_sql(self, NoneV, FALSE)

(***************************************************************************)
(* The inputs of the model.                                                *)
(***************************************************************************)
\* some informational, success and redirect codes, then every code from 400 up
StatusCodes == {0, 100, 200, 204, 301, 302, 399} \cup (400 .. MaxStatus)

Texts == {"", "not found"}

Msgs == {"", "Invalid field"}

Locations == {NoneV, StrV(""), StrV("config.yaml"), PathV(""), PathV("models/"),
              PathV("models/a.sql")}

\* the classes a caller may pass as error_type: Type[ConfigError]
ErrorTypes == {cls \in Classes : IsSubclass(cls, "ConfigError")}

\* positional arguments tried on the constructors
ArgLists == {<<>>, <<"text">>, <<"text", 500>>}

AuditNames == {"a1"}

Counts == 0 .. MaxCount

Queries == {"q1", "q2"}

Models == {NoneV, ModelV("orders"), ModelV("")}

Dialects == {NoneV, StrV(""), StrV("oracle"), StrV("tsql")}

\* the AuditError instances the methods are called on
AuditErrors ==
    {AuditError_init(audit_name, count, query, model, adapter_dialect) :
        audit_name \in AuditNames, count \in Counts, query \in Queries,
        model \in Models, adapter_dialect \in Dialects}

Init ==
    /\ call = [op |-> "none"]
    /\ outcome = ReturnedNone

\* raise_for_status(response)
CallRaiseForStatus ==
    \E status_code \in StatusCodes, text \in Texts :
        /\ call' = [op |-> "raise_for_status", status_code |-> status_code,
                    text |-> text]
        /\ outcome' = raise_for_status(status_code, text)

\* raise_config_error(msg[, location][, error_type]); an omitted argument
\* takes the parameter's default
CallRaiseConfigError ==
    \E msg \in Msgs, location \in Locations \cup {Omitted},
       error_type \in ErrorTypes \cup {"omitted"} :
        /\ call' = [op |-> "raise_config_error", msg |-> msg,
                    location |-> location, error_type |-> error_type]
        /\ outcome' = raise_config_error(
                          msg,
                          IF location = Omitted THEN DefaultLocation ELSE location,
                          IF error_type = "omitted" THEN DefaultErrorType
                          ELSE error_type)

\* cls(*args) for a class other than AuditError
CallConstruct ==
    \E cls \in Classes \ {"AuditError"}, args \in ArgLists :
        /\ call' = [op |-> "construct", cls |-> cls, args |-> args]
        /\ outcome' = Construct(cls, args)

\* AuditError(audit_name, count, query, model, adapter_dialect)
NewAuditError ==
    \E audit_name \in AuditNames, count \in Counts, query \in Queries,
       model \in Models, adapter_dialect \in Dialects :
        /\ call' = [op |-> "AuditError"]
        /\ outcome' = Returned(AuditError_init(audit_name, count, query, model,
                                               adapter_dialect), "")

\* str(self) on an AuditError
CallAuditStr ==
    \E self \in AuditErrors :
        /\ call' = [op |-> "str", self |-> self]
        /\ outcome' = Returned(NoExc, AuditError_str(self))

\* self.sql(dialect, pretty=...) on an AuditError
CallAuditSql ==
    \E self \in AuditErrors, dialect \in Dialects, pretty \in BOOLEAN :
        /\ call' = [op |-> "sql", self |-> self, dialect |-> dialect,
                    pretty |-> pretty]
        /\ outcome' = Returned(NoExc, AuditError_sql(self, dialect, pretty))

Next ==
    \/ CallRaiseForStatus
    \/ CallRaiseConfigError
    \/ CallConstruct
    \/ NewAuditError
    \/ CallAuditStr
    \/ CallAuditSql

Spec == Init /\ [][Next]_vars

TypeOK ==
    /\ outcome.how \in {"return", "raise"}
    /\ call.op \in {"none", "raise_for_status", "raise_config_error",
                    "construct", "AuditError", "str", "sql"}

(***************************************************************************)
(* Properties.                                                             *)
(***************************************************************************)
IsRaiseForStatus == call.op = "raise_for_status"

IsRaiseConfigError == call.op = "raise_config_error"

\* C1: for every status code in [400,499] other than 404, raise_for_status
\* raises exactly an ApiClientError (not a NotFoundError, not an
\* ApiServerError) whose code is that status code and whose message is the
\* response body.
C1_ClientError ==
    (IsRaiseForStatus /\ 400 <= call.status_code /\ call.status_code <= 499
        /\ call.status_code # 404)
    => /\ outcome.how = "raise"
       /\ outcome.exc.type = "ApiClientError"
       /\ outcome.exc.code = <<call.status_code>>
       /\ ExcStr(outcome.exc) = call.text

C1_Witness ==
    /\ IsRaiseForStatus
    /\ call.status_code = 400
    /\ call.text = "not found"
    /\ outcome = Raised(Exc("ApiClientError", <<"not found">>, <<400>>))

\* C2: for status code 404, raise_for_status raises a NotFoundError with the
\* response body as message (404 is decided before the 400-499 range), and
\* every NotFoundError, raised or constructed, has code 404.
C2_NotFound ==
    /\ (IsRaiseForStatus /\ call.status_code = 404)
       => /\ outcome.how = "raise"
          /\ outcome.exc.type = "NotFoundError"
          /\ ExcStr(outcome.exc) = call.text
    /\ outcome.exc.type = "NotFoundError" => outcome.exc.code = <<404>>

C2_Witness ==
    /\ IsRaiseForStatus
    /\ call.status_code = 404
    /\ outcome = Raised(Exc("NotFoundError", <<"not found">>, <<404>>))

\* C3: for every status code in [500,599], raise_for_status raises an
\* ApiServerError whose code is that status code and whose message is the
\* response body.
C3_ServerError ==
    (IsRaiseForStatus /\ 500 <= call.status_code /\ call.status_code <= 599)
    => /\ outcome.how = "raise"
       /\ outcome.exc.type = "ApiServerError"
       /\ outcome.exc.code = <<call.status_code>>
       /\ ExcStr(outcome.exc) = call.text

C3_Witness ==
    /\ IsRaiseForStatus
    /\ call.status_code = 500
    /\ outcome = Raised(Exc("ApiServerError", <<"not found">>, <<500>>))

\* C4: for a status code outside [400,599], raise_for_status raises nothing
\* and returns None; it raises only for codes inside [400,599], and then one
\* error whose class is a kind of ApiError.
C4_NoOpOutsideRange ==
    IsRaiseForStatus
    => /\ (call.status_code < 400 \/ call.status_code > 599)
          => outcome = ReturnedNone
       /\ outcome.how = "raise"
          => /\ 400 <= call.status_code /\ call.status_code <= 599
             /\ IsSubclass(outcome.exc.type, "ApiError")

C4_Witness ==
    /\ IsRaiseForStatus
    /\ call.status_code = 600
    /\ outcome = ReturnedNone

\* C5: raise_config_error with location None (or left out) or "" raises an
\* error whose message is exactly msg; with any other location the message
\* is exactly msg, " at '", the location's string form, "'".
C5_LocationSuffix ==
    IsRaiseConfigError
    => /\ outcome.how = "raise"
       /\ IF call.location \in {Omitted, NoneV, StrV("")}
          THEN ExcStr(outcome.exc) = call.msg
          ELSE ExcStr(outcome.exc)
                 = call.msg \o " at '" \o Format(call.location) \o "'"

C5_Witness ==
    /\ IsRaiseConfigError
    /\ call.location = StrV("config.yaml")
    /\ outcome.how = "raise"
    /\ ExcStr(outcome.exc) = "Invalid field at 'config.yaml'"

\* C6: raise_config_error never returns: for every msg, location and
\* error_type it raises one error, whose class is exactly error_type, and
\* ConfigError when error_type is left out.
C6_AlwaysRaisesRequestedKind ==
    IsRaiseConfigError
    => /\ outcome.how = "raise"
       /\ outcome.exc.type
            = IF call.error_type = "omitted" THEN "ConfigError"
              ELSE call.error_type

C6_Witness ==
    /\ IsRaiseConfigError
    /\ call.error_type = "AuditConfigError"
    /\ call.location = StrV("")
    /\ outcome.how = "raise"
    /\ outcome.exc.type = "AuditConfigError"

\* the string form of an AuditError with the given model clause
AuditMessage(self, clause) ==
    "Audit '" \o self.audit_name \o "'" \o clause \o " failed.\nGot "
    \o ToString(self.count) \o " results, expected 0.\n"
    \o AuditError_sql(self, NoneV, FALSE)

ModelClause(self) == " for model '" \o self.model.val \o "'"

\* C7 as stated: the string form of an AuditError is "Audit '<name>' for
\* model '<model>' failed.\nGot <count> results, expected 0.\n<sql>", and the
\* " for model '<model>'" clause is left out when and only when no model is
\* attached.
C7_ClauseIffModelAttached ==
    call.op = "str"
    => outcome.text
         = AuditMessage(call.self,
                        IF call.self.model # NoneV THEN ModelClause(call.self)
                        ELSE "")

\* C7 amended: the same string form, the clause being left out when and only
\* when no model is attached or the attached model's name is empty.
C7_ClauseIffModelNamed ==
    call.op = "str"
    => outcome.text
         = AuditMessage(call.self,
                        IF call.self.model # NoneV /\ call.self.model.val # ""
                        THEN ModelClause(call.self)
                        ELSE "")

C7_Witness ==
    /\ call.op = "str"
    /\ call.self.model = ModelV("orders")
    /\ call.self.adapter_dialect = NoneV
    /\ outcome.text
         = "Audit 'a1' for model 'orders' failed.\nGot 3 results, expected 0.\n"
           \o "SELECT \"a\" FROM \"t\" AS \"x\""

\* the rendering of self.query under the dialect d
Rendered(d) == QuerySql(call.self.query, d, call.pretty)

CircuitBreakerMessage == "Circuit breaker triggered."

IsConstructCircuitBreaker ==
    call.op = "construct" /\ call.cls = "CircuitBreakerError"

\* C9 as stated: constructing a CircuitBreakerError, with caller-supplied
\* text or without, yields a CircuitBreakerError whose message is
\* "Circuit breaker triggered.".
C9_TextIgnored ==
    IsConstructCircuitBreaker
    => /\ outcome.how = "return"
       /\ outcome.exc.type = "CircuitBreakerError"
       /\ ExcStr(outcome.exc) = CircuitBreakerMessage

\* C9 amended: every CircuitBreakerError has the message
\* "Circuit breaker triggered."; the constructor takes no argument, and a
\* construction with caller-supplied text raises TypeError and yields no
\* CircuitBreakerError.
C9_FixedMessage ==
    /\ outcome.exc.type = "CircuitBreakerError"
       => ExcStr(outcome.exc) = CircuitBreakerMessage
    /\ IsConstructCircuitBreaker
       => IF call.args = <<>>
          THEN outcome.how = "return" /\ outcome.exc.type = "CircuitBreakerError"
          ELSE outcome.how = "raise" /\ outcome.exc.type = "TypeError"

C9_Witness ==
    /\ IsConstructCircuitBreaker
    /\ call.args = <<>>
    /\ outcome = Returned(Exc("CircuitBreakerError",
                              <<"Circuit breaker triggered.">>, <<>>), "")

\* C10: MissingContextException is not a kind of SQLMeshError, every other
\* class of the module is, and every error raise_config_error or
\* raise_for_status raises is a kind of SQLMeshError.
C10_DomainRoot ==
    /\ (call.op \in {"construct", "AuditError"} /\ outcome.how = "return")
       => (IsSubclass(outcome.exc.type, "SQLMeshError")
           <=> outcome.exc.type # "MissingContextException")
    /\ ((IsRaiseConfigError \/ IsRaiseForStatus) /\ outcome.how = "raise")
       => IsSubclass(outcome.exc.type, "SQLMeshError")

C10_Witness ==
    /\ call.op = "construct"
    /\ call.cls = "MissingContextException"
    /\ outcome.how = "return"
    /\ outcome.exc.type = "MissingContextException"
    /\ ~IsSubclass(outcome.exc.type, "SQLMeshError")
====
